---- MODULE Spec2Model ----
(***************************************************************************)
(* Verification model of the spreadsheet round-trip editor (ExcelEditor),  *)
(* the upload component (FileUpload) and the service calls they make.      *)
(*                                                                         *)
(* The specifications share the variables:                                 *)
(*   SpecGrid    the tabular model adapter as a function of the sheet:     *)
(*               the useMemo projection (toGrid) and getGridData (fromGrid)*)
(*   SpecView    the adapter under a grid that is sorted and filtered      *)
(*   SpecUndo    the grid's bounded history of cell edits                  *)
(*   SpecEditor  the ExcelEditor component: loads, saves, modal, flags     *)
(*   SpecLoad    SpecEditor restricted to its load requests                *)
(*   SpecUpload  the FileUpload component inside the FileUploadPage wizard *)
(*   SpecWizard  the FileUploadPage with the editor of its second step     *)
(*   SpecRoute   the routes of App.tsx under the session of AuthProvider   *)
(*   SpecReport  the SecuritiesReportPage against the backend's reports    *)
(*   SpecBusy    SpecEditor or SpecUpload, for the busy flags of both      *)
(***************************************************************************)
EXTENDS Integers, Sequences, FiniteSets, TLC

VARIABLES
    phase,          \* SpecGrid: "input" before the first render, "grid" after;
                    \* SpecBusy: "upload" when the mounted component is FileUpload
    excelData,      \* useState<any[][]>: the loaded sheet
    gridRows,       \* the row objects held by the grid's row nodes (node.data)
    edits,          \* number of committed cell edits
    download,       \* what handleDownload wrote in the most recent step
    loading,        \* useState(false): busy flag of load and of file save
    saving,         \* useState(false): busy flag of the database saves
    isModalVisible, \* useState(false): the save-configuration modal
    workbook,       \* useState<WorkBook|null>: name of the decoded workbook, "" = null
    currentSheet,   \* useState(''): name of the current sheet
    excelUrl,       \* prop: "" when the parent passes none
    portfolioId,    \* prop: 0 when the parent passes none
    pending,        \* the requests in flight
    nreq,           \* number of requests dispatched so far
    lastResponse,   \* the response handled in the most recent step
    notice,         \* the notification shown in the most recent step
    onSaveCalled,   \* whether the most recent step invoked the onSave callback
    returnedId,     \* portfolioId carried by the last successful create response
    nextId,         \* backend: the id the next created record gets
    fileList,       \* FileUpload useState<UploadFile[]>
    uploading,      \* FileUpload useState(false)
    currentStep,    \* FileUploadPage useState(0)
    pageExcelUrl,   \* FileUploadPage useState('')
    pageFileName,   \* FileUploadPage useState(''): the display name of the spreadsheet
    sent,           \* the file carried by the upload request of the most recent step
    selected,       \* the file the user chose in the most recent step
    sortModel,      \* the grid's sort: a column and a direction
    filterModel,    \* the grid's filter: a column and the text its cells must contain
    undoStack,      \* the grid's history of cell edits that undo can revert
    redoStack,      \* the reverted cell edits that redo can apply again
    isAuthenticated,\* useAuth(): whether a user is signed in
    isLoading,      \* useAuth(): whether the stored session is still being read
    user,           \* useAuth(): the role of the signed-in user, "" without one
    location,       \* the router's current path
    screen,         \* the element the matched route renders
    requested,      \* the path the visitor asked for last
    reports,        \* SecuritiesReportPage useState([]): the status of each listed report
    backendReports, \* backend: the status of each stored report
    dialogOpen,     \* SecuritiesReportPage useState(false): the report form dialog
    editingReport,  \* SecuritiesReportPage useState(null): id of the report in the
                    \* dialog, 0 = null
    localStorage    \* the browser's local storage: the keys that hold a value

gridVars   == <<phase, excelData, gridRows, edits, download>>
editorVars == <<loading, saving, isModalVisible, workbook, currentSheet, excelUrl,
                portfolioId, pending, nreq, lastResponse, notice, onSaveCalled,
                returnedId, nextId>>
uploadVars == <<fileList, uploading, currentStep, pageExcelUrl, pageFileName, sent,
                selected>>
viewVars   == <<sortModel, filterModel, undoStack, redoStack>>
routeVars  == <<isAuthenticated, isLoading, user, location, screen, requested>>
reportVars == <<reports, backendReports, dialogOpen, editingReport>>
pageVars   == <<reportVars, localStorage>>
vars       == <<gridVars, editorVars, uploadVars, viewVars, routeVars, pageVars>>

(***************************************************************************)
(* Bounds of the model.                                                    *)
(***************************************************************************)
MaxRows     == 2    \* rows of a generated sheet
MaxCells    == 2    \* cells of a generated sheet, over all its rows
MaxEdits    == 1    \* committed cell edits
MaxRequests == 3    \* requests dispatched by one component instance
MaxHistory  == 22   \* cell edits standing in the grid's edit history
MaxReports  == 2    \* securities reports the backend holds

(***************************************************************************)
(* Cell values.  A JavaScript value is a tagged record; the text of a      *)
(* string, and the decimal text of a number, is a sequence of characters.  *)
(* null and undefined (an index past the end of a row) are one value.      *)
(***************************************************************************)
Str(s) == [t |-> "str", v |-> s]
Num(s) == [t |-> "num", v |-> s]
Null   == [t |-> "null", v |-> <<>>]

EmptyStr == Str(<<>>)

\* JavaScript truthiness: '' , 0 , null and undefined are falsy.
Truthy(c) ==
    \/ c.t = "str" /\ c.v # <<>>
    \/ c.t = "num" /\ c.v # <<"0">>

\* x || ''
OrEmpty(c) == IF Truthy(c) THEN c ELSE EmptyStr

\* String(x) of a string or a number
String(c) == c.v

IsSpace(ch) == ch = " "

RECURSIVE TrimStart(_)
TrimStart(s) ==
    IF s # <<>> /\ IsSpace(Head(s)) THEN TrimStart(Tail(s)) ELSE s

RECURSIVE TrimEnd(_)
TrimEnd(s) ==
    IF s # <<>> /\ IsSpace(s[Len(s)]) THEN TrimEnd(SubSeq(s, 1, Len(s) - 1)) ELSE s

\* String.prototype.trim
Trim(s) == TrimEnd(TrimStart(s))

Digits == <<"0", "1", "2", "3", "4", "5", "6", "7", "8", "9">>

\* decimal text of a natural number, as template-literal interpolation gives it
RECURSIVE ToDecimal(_)
ToDecimal(n) ==
    IF n < 10 THEN <<Digits[n + 1]>>
    ELSE ToDecimal(n \div 10) \o <<Digits[(n % 10) + 1]>>

\* row?.[i] with i 0-based: undefined past the end of the row
CellAt(row, i) == IF i + 1 <= Len(row) THEN row[i + 1] ELSE Null

(***************************************************************************)
(* Sheets the model loads.                                                  *)
(***************************************************************************)
Cells == { Str(<<"a">>), Str(<<" ">>), EmptyStr, Num(<<"7">>), Num(<<"0">>), Null }

RECURSIVE SumSeq(_)
SumSeq(s) == IF s = <<>> THEN 0 ELSE Head(s) + SumSeq(Tail(s))

\* the row lengths of the generated sheets
Shapes ==
    { sh \in UNION { [1..r -> 0..MaxCells] : r \in 0..MaxRows } : SumSeq(sh) <= MaxCells }

RECURSIVE SheetsOfShape(_)
SheetsOfShape(sh) ==
    IF sh = <<>> THEN { <<>> }
    ELSE { <<h>> \o t : h \in [1..Head(sh) -> Cells], t \in SheetsOfShape(Tail(sh)) }

GenSheets == UNION { SheetsOfShape(sh) : sh \in Shapes }

\* the sheets the specification's testable properties name
RaggedSheet  == << <<Str(<<"a">>)>>,
                   <<Str(<<"b">>), Str(<<"c">>), Str(<<"d">>)>> >>
HeaderSheet  == << <<Str(<<"N", "a", "m", "e">>), Str(<<"A", "g", "e">>)>>,
                   <<Str(<<"A">>), Str(<<"3", "0">>)>> >>
DigitSheet   == << <<Str(<<"5">>), Str(<<"6">>)>>,
                   <<Str(<<"7">>), Str(<<"8">>)>> >>
NumberSheet  == << <<Num(<<"5">>), Num(<<"6">>)>>,
                   <<Num(<<"7">>), Num(<<"8">>)>> >>
PaddedSheet  == << <<Str(<<" ", "a", " ">>), Str(<<" ">>)>>,
                   <<Num(<<"0">>), Null>> >>

ExampleSheets == { RaggedSheet, HeaderSheet, DigitSheet, NumberSheet, PaddedSheet }

Sheets == GenSheets \cup ExampleSheets

(***************************************************************************)
(* toGrid: the useMemo that projects excelData to rowData and columnDefs.  *)
(***************************************************************************)
\* variant: the test without trim(), so a blank string counts as a header
HasHeadersNoTrim(headers) ==
    \A i \in 1..Len(headers) : headers[i].t = "str" /\ headers[i].v # <<>>

\* variant: the test without typeof, so any truthy cell counts as a header
HasHeadersAnyType(headers) ==
    \A i \in 1..Len(headers) : Truthy(headers[i]) /\ Trim(headers[i].v) # <<>>

\* headers.every(header => typeof header === 'string' && header.trim() !== '')
HasHeaders(headers) ==
    \A i \in 1..Len(headers) : headers[i].t = "str" /\ Trim(headers[i].v) # <<>>

RECURSIVE MaxOf(_)
MaxOf(s) ==
    IF Len(s) = 1 THEN s[1]
    ELSE LET m == MaxOf(Tail(s)) IN IF s[1] >= m THEN s[1] ELSE m

\* variant: the width is taken from row 0 alone
MaxColsFirstRow(data) == Len(data[1])

\* Math.max(...excelData.map(row => row?.length || 0)), excelData not empty
MaxCols(data) == MaxOf([r \in 1..Len(data) |-> Len(data[r])])

\* the one character U+5217 ("column") that starts a synthetic column name
ColumnGlyph == "U+5217"

\* the template literal of line 122: ColumnGlyph followed by ${i + 1}
SyntheticName(i) == <<ColumnGlyph>> \o ToDecimal(i + 1)

\* hasHeaders && headers[i] ? String(headers[i]) : SyntheticName(i)
HeaderName(hasHeaders, headers, i) ==
    IF hasHeaders /\ Truthy(CellAt(headers, i)) THEN String(CellAt(headers, i))
    ELSE SyntheticName(i)

\* variant: the header row is not skipped
StartRowZero(hasHeaders) == 0

\* const startRow = hasHeaders ? 1 : 0
StartRow(hasHeaders) == IF hasHeaders THEN 1 ELSE 0

\* rowObj[`col${i}`] = row?.[i] || ''
RowValue(row, i) == OrEmpty(CellAt(row, i))

\* a row object: id, and col[i + 1] standing for the field `col${i}`
RowObj(row, index, maxCols) ==
    [id |-> index, col |-> [k \in 1..maxCols |-> RowValue(row, k - 1)]]

ToGrid(data) ==
    IF Len(data) = 0 THEN [rowData |-> <<>>, columnDefs |-> <<>>]
    ELSE
        LET headers    == data[1]
            hasHeaders == HasHeaders(headers)
            maxCols    == MaxCols(data)
            cols       == [k \in 1..maxCols |->
                              [field |-> k - 1,
                               headerName |-> HeaderName(hasHeaders, headers, k - 1)]]
            startRow   == StartRow(hasHeaders)
            rows       == [n \in 1..(Len(data) - startRow) |->
                              RowObj(data[startRow + n], n - 1, maxCols)]
        IN  [rowData |-> rows, columnDefs |-> cols]

\* the memoised values of the current render
RowData    == ToGrid(excelData).rowData
ColumnDefs == ToGrid(excelData).columnDefs

(***************************************************************************)
(* The presentation of the grid: every column is sortable and filterable   *)
(* (defaultColDef).  A filter keeps the rows whose cell in one column      *)
(* contains a text; a sort orders the displayed rows by the text of one    *)
(* column, rows of equal rank staying in load order.                       *)
(***************************************************************************)
\* no sort, no filter
NoSort   == [colId |-> -1, sort |-> "none"]
NoFilter == [colId |-> -1, filter |-> <<>>]

Contains(s, sub) ==
    \E i \in 0..(Len(s) - Len(sub)) : SubSeq(s, i + 1, i + Len(sub)) = sub

PassesFilter(row, fm) ==
    IF fm = NoFilter THEN TRUE
    ELSE Contains(String(CellAt(row.col, fm.colId)), fm.filter)

\* the collation of the characters the sheets use
CharOrder ==
    <<" ", "0", "1", "2", "3", "4", "5", "6", "7", "8", "9",
      "A", "K", "N", "a", "b", "c", "d", "e", "g", "m", "x">>

Rank(ch) ==
    IF \E i \in 1..Len(CharOrder) : CharOrder[i] = ch
    THEN CHOOSE i \in 1..Len(CharOrder) : CharOrder[i] = ch
    ELSE Len(CharOrder) + 1

\* the rank of a row under a sort: blank cells first, then by first character
SortKey(row, sm) ==
    LET text == String(CellAt(row.col, sm.colId))
    IN  IF text = <<>> THEN 0 ELSE Rank(text[1])

\* row put into a sorted sequence behind the rows that do not come after it
Insert(row, sorted, sm) ==
    LET before == { i \in 1..Len(sorted) :
                      IF sm.sort = "asc" THEN SortKey(sorted[i], sm) <= SortKey(row, sm)
                      ELSE SortKey(sorted[i], sm) >= SortKey(row, sm) }
        p == Cardinality(before)
    IN  SubSeq(sorted, 1, p) \o <<row>> \o SubSeq(sorted, p + 1, Len(sorted))

RECURSIVE SortRows(_, _)
SortRows(rows, sm) ==
    IF rows = <<>> THEN <<>>
    ELSE Insert(rows[Len(rows)], SortRows(SubSeq(rows, 1, Len(rows) - 1), sm), sm)

(***************************************************************************)
(* fromGrid: getGridData reads the row nodes back into a 2-D array.        *)
(***************************************************************************)
\* renderTable mounts the grid only for a non-empty excelData, so the ref
\* gridRef.current?.api exists exactly then
GridMounted(data) == Len(data) # 0

\* variant: the header text is read from a property the column does not have
HeaderRowBlank(columnDefs) == [k \in 1..Len(columnDefs) |-> EmptyStr]

\* columnDefs.map(col => col.headerName || '')
HeaderRow(columnDefs) ==
    [k \in 1..Len(columnDefs) |->
        IF columnDefs[k].headerName # <<>> THEN Str(columnDefs[k].headerName)
        ELSE EmptyStr]

\* variant: every property of the row object is emitted, the id first
DataRowWithId(row, columnDefs) ==
    <<Num(ToDecimal(row.id))>> \o
    [k \in 1..Len(columnDefs) |-> OrEmpty(CellAt(row.col, columnDefs[k].field))]

\* columnDefs.map(col => row[col.field || ''] || '')
DataRow(row, columnDefs) ==
    [k \in 1..Len(columnDefs) |-> OrEmpty(CellAt(row.col, columnDefs[k].field))]

\* variant: only the data rows are returned
GetGridDataNoHeader(data, rows) ==
    IF ~GridMounted(data) THEN <<>>
    ELSE [n \in 1..Len(rows) |-> DataRow(rows[n], ToGrid(data).columnDefs)]

GetGridData(data, rows) ==
    IF ~GridMounted(data) THEN <<>>
    ELSE LET columnDefs == ToGrid(data).columnDefs
         IN  <<HeaderRow(columnDefs)>> \o [n \in 1..Len(rows) |-> DataRow(rows[n], columnDefs)]

\* the row objects gridApi.forEachNodeAfterFilterAndSort would visit: the rows that
\* pass the filter, in the order of the sort
DisplayedRows(rows, sm, fm) ==
    LET passing == SelectSeq(rows, LAMBDA r : PassesFilter(r, fm))
    IN  IF sm = NoSort THEN passing ELSE SortRows(passing, sm)

\* variant: getGridData walks the rows as displayed
ForEachNodeAfterFilterAndSort(rows, sm, fm) == DisplayedRows(rows, sm, fm)

\* gridApi.forEachNode(node => allRows.push(node.data)): every row node, in the order
\* of rowData, whatever the sort and the filter are
ForEachNode(rows, sm, fm) == rows

\* getGridData() of the mounted component
GridData == GetGridData(excelData, ForEachNode(gridRows, sortModel, filterModel))

\* the reconciliation of a sheet through the grid with no edits
Reconcile(data) == GetGridData(data, ToGrid(data).rowData)

(***************************************************************************)
(* Cell edits: the text editor commits a string, or null for a cleared cell*)
(***************************************************************************)
EditValues == { Str(<<"x">>), EmptyStr, Null }

SetCell(rows, n, k, v) ==
    [rows EXCEPT ![n] = [@ EXCEPT !.col = [@ EXCEPT ![k] = v]]]

NoDownload == [done |-> FALSE, data |-> <<>>]

NoResponse == [kind |-> "none", outcome |-> "none"]
\* the relation metadata no request but an upload carries
NoInfo     == [name |-> <<>>, relationship |-> <<>>, idNumber |-> <<>>, phone |-> <<>>]
\* a MIME type is the pair <<type, subtype>>; sizes are in bytes
NoFile     == [mime |-> <<>>, size |-> 0]

\* the component state of useState's initial values, nothing in flight
EditorIdle ==
    /\ loading = FALSE /\ saving = FALSE /\ isModalVisible = FALSE
    /\ workbook = "" /\ currentSheet = ""
    /\ excelUrl = "" /\ portfolioId = 0
    /\ pending = {} /\ nreq = 0
    /\ lastResponse = NoResponse /\ notice = "none" /\ onSaveCalled = FALSE
    /\ returnedId = 0 /\ nextId = 1

UploadIdle ==
    /\ fileList = <<>> /\ uploading = FALSE
    /\ currentStep = 0 /\ pageExcelUrl = "" /\ pageFileName = ""
    /\ sent = NoFile /\ selected = NoFile

\* the grid as mounted: unsorted, unfiltered, with an empty edit history
ViewIdle ==
    /\ sortModel = NoSort /\ filterModel = NoFilter
    /\ undoStack = <<>> /\ redoStack = <<>>

\* the router before the first render, nobody signed in
RouteIdle ==
    /\ isAuthenticated = FALSE /\ isLoading = FALSE /\ user = ""
    /\ location = "/" /\ screen = "none" /\ requested = "/"

\* the other pages before they are mounted
PageIdle ==
    /\ reports = <<>> /\ backendReports = <<>>
    /\ dialogOpen = FALSE /\ editingReport = 0
    /\ localStorage = {}

(***************************************************************************)
(* SpecGrid: the adapter applied to every sheet of Sheets.                 *)
(***************************************************************************)
InitGrid ==
    /\ phase = "input"
    /\ excelData \in Sheets
    /\ gridRows = <<>>
    /\ edits = 0
    /\ download = NoDownload
    /\ EditorIdle
    /\ UploadIdle
    /\ ViewIdle
    /\ RouteIdle
    /\ PageIdle

\* the render that follows setExcelData: the grid takes rowData as its row nodes
Render ==
    /\ phase = "input"
    /\ phase' = "grid"
    /\ gridRows' = RowData
    /\ download' = NoDownload
    /\ UNCHANGED <<excelData, edits, editorVars, uploadVars, viewVars, routeVars, pageVars>>

\* the user commits one edit of one cell; the grid updates the row object in place
CellEdit ==
    /\ phase = "grid"
    /\ edits < MaxEdits
    /\ \E n \in 1..Len(gridRows) :
         \E k \in 1..Len(gridRows[n].col) :
           \E v \in EditValues :
             /\ PassesFilter(gridRows[n], filterModel)
             /\ gridRows[n].col[k] # v
             /\ gridRows' = SetCell(gridRows, n, k, v)
    /\ edits' = edits + 1
    /\ download' = NoDownload
    /\ UNCHANGED <<phase, excelData, editorVars, uploadVars, viewVars, routeVars, pageVars>>

\* handleDownload: getGridData, then the workbook is written from that array
HandleDownload ==
    /\ phase = "grid"
    /\ download' = [done |-> TRUE, data |-> GridData]
    /\ UNCHANGED <<phase, excelData, gridRows, edits, editorVars, uploadVars, viewVars,
                   routeVars, pageVars>>

NextGrid == Render \/ CellEdit \/ HandleDownload

SpecGrid == InitGrid /\ [][NextGrid]_vars

(***************************************************************************)
(* SpecView: the adapter under a grid the user sorts and filters.          *)
(***************************************************************************)
UnsortedSheet == << <<Str(<<"K">>)>>, <<Str(<<"b">>)>>, <<Str(<<"a">>)>>, <<Str(<<"c">>)>> >>

ViewSheets == { NumberSheet, PaddedSheet, UnsortedSheet }

FilterTexts == { <<"a">>, <<"7">> }

InitView ==
    /\ phase = "input"
    /\ excelData \in ViewSheets
    /\ gridRows = <<>>
    /\ edits = 0
    /\ download = NoDownload
    /\ EditorIdle
    /\ UploadIdle
    /\ ViewIdle
    /\ RouteIdle
    /\ PageIdle

\* a click on a column header: sortable: true
OnSortChanged ==
    /\ phase = "grid" /\ GridMounted(excelData)
    /\ \E k \in 1..Len(ColumnDefs) :
         \E dir \in {"asc", "desc", "none"} :
           LET sm == IF dir = "none" THEN NoSort
                     ELSE [colId |-> ColumnDefs[k].field, sort |-> dir]
           IN  sm # sortModel /\ sortModel' = sm
    /\ download' = NoDownload
    /\ UNCHANGED <<phase, excelData, gridRows, edits, editorVars, uploadVars,
                   filterModel, undoStack, redoStack, routeVars, pageVars>>

\* a text typed into, or cleared from, a column's filter: filter: true
OnFilterChanged ==
    /\ phase = "grid" /\ GridMounted(excelData)
    /\ \E k \in 1..Len(ColumnDefs) :
         \E text \in FilterTexts \cup { <<>> } :
           LET fm == IF text = <<>> THEN NoFilter
                     ELSE [colId |-> ColumnDefs[k].field, filter |-> text]
           IN  fm # filterModel /\ filterModel' = fm
    /\ download' = NoDownload
    /\ UNCHANGED <<phase, excelData, gridRows, edits, editorVars, uploadVars, sortModel,
                   undoStack, redoStack, routeVars, pageVars>>

NextView == Render \/ CellEdit \/ HandleDownload \/ OnSortChanged \/ OnFilterChanged

SpecView == InitView /\ [][NextView]_vars

(***************************************************************************)
(* SpecUndo: the grid's edit history, undoRedoCellEditing with a limit.    *)
(* The history is linear: an edit is pushed onto the undo stack, the       *)
(* oldest entry leaving it beyond the limit, and discards what was undone; *)
(* undo moves the newest entry to the redo stack, redo moves it back.      *)
(* Here edits counts the edits standing in that history, undone or not,    *)
(* and the nth of them types the decimal text of n.                        *)
(***************************************************************************)
\* variant: a history one entry longer
UndoRedoCellEditingLimitPlusOne == 20 + 1

\* undoRedoCellEditingLimit={20}
UndoRedoCellEditingLimit == 20

\* the newest n entries of a stack
Newest(stack, n) ==
    IF Len(stack) <= n THEN stack ELSE SubSeq(stack, Len(stack) - n + 1, Len(stack))

InitUndo ==
    /\ phase = "grid"
    /\ excelData = HeaderSheet
    /\ gridRows = RowData
    /\ edits = 0
    /\ download = NoDownload
    /\ EditorIdle
    /\ UploadIdle
    /\ ViewIdle
    /\ RouteIdle
    /\ PageIdle

\* a committed edit of one cell of the data row, the two cells taking turns
HistoryEdit ==
    /\ edits - Len(redoStack) < MaxHistory
    /\ LET n     == edits - Len(redoStack) + 1
           k     == (n % 2) + 1
           entry == [row |-> 1, col |-> k, oldValue |-> gridRows[1].col[k],
                     newValue |-> Str(ToDecimal(n))]
       IN  /\ gridRows' = SetCell(gridRows, entry.row, entry.col, entry.newValue)
           /\ undoStack' = Newest(Append(undoStack, entry), UndoRedoCellEditingLimit)
           /\ redoStack' = <<>>
           /\ edits' = n
    /\ download' = NoDownload
    /\ UNCHANGED <<phase, excelData, editorVars, uploadVars, sortModel, filterModel,
                   routeVars, pageVars>>

\* Ctrl+Z: the newest edit of the history is reverted
Undo ==
    /\ undoStack # <<>>
    /\ LET entry == undoStack[Len(undoStack)]
       IN  /\ gridRows' = SetCell(gridRows, entry.row, entry.col, entry.oldValue)
           /\ undoStack' = SubSeq(undoStack, 1, Len(undoStack) - 1)
           /\ redoStack' = Append(redoStack, entry)
    /\ download' = NoDownload
    /\ UNCHANGED <<phase, excelData, edits, editorVars, uploadVars, sortModel,
                   filterModel, routeVars, pageVars>>

\* Ctrl+Y: the edit reverted last is applied again
Redo ==
    /\ redoStack # <<>>
    /\ LET entry == redoStack[Len(redoStack)]
       IN  /\ gridRows' = SetCell(gridRows, entry.row, entry.col, entry.newValue)
           /\ redoStack' = SubSeq(redoStack, 1, Len(redoStack) - 1)
           /\ undoStack' = Newest(Append(undoStack, entry), UndoRedoCellEditingLimit)
    /\ download' = NoDownload
    /\ UNCHANGED <<phase, excelData, edits, editorVars, uploadVars, sortModel,
                   filterModel, routeVars, pageVars>>

NextUndo == HistoryEdit \/ Undo \/ Redo

SpecUndo == InitUndo /\ [][NextUndo]_vars

(***************************************************************************)
(* SpecEditor: one mounted ExcelEditor.  A request in flight is a record   *)
(* of pending; its completion is a separate step, so clicks, prop changes  *)
(* and completions interleave as the event loop allows.  A button with     *)
(* loading = true ignores clicks; the open modal's mask covers the page    *)
(* buttons and the grid; the Spin overlay covers the grid while loading.   *)
(***************************************************************************)
\* the sheets the backend serves to the editor
EditorSheets == { HeaderSheet, NumberSheet, <<>> }

Urls == { "/a.xlsx", "/b.xlsx" }

Request(kind, method, target, data) ==
    [id |-> nreq + 1, kind |-> kind, method |-> method, target |-> target, data |-> data,
     file |-> NoFile, info |-> NoInfo]

Response(r, outcome) == [kind |-> r.kind, outcome |-> outcome]

Dispatch(r) == pending' = pending \cup {r} /\ nreq' = nreq + 1

CanDispatch == nreq < MaxRequests

\* api.get(url) of loadExcelFile, api.get('/v1/excel/quarterly-report')
LoadRequest(url) ==
    IF url # "" THEN Request("loadExcel", "GET", 0, <<>>)
    ELSE Request("loadQuarterly", "GET", 0, <<>>)

\* the steps that show nothing and call nothing back
Quiet ==
    /\ lastResponse' = NoResponse /\ notice' = "none"
    /\ onSaveCalled' = FALSE /\ download' = NoDownload

\* setExcelData(d) and the render that follows it
SetExcelData(d) == excelData' = d /\ gridRows' = ToGrid(d).rowData

\* the state after mount: the effect of lines 48-55 has started the first load
InitEditor ==
    /\ phase = "grid"
    /\ excelData = <<>> /\ gridRows = <<>> /\ edits = 0 /\ download = NoDownload
    /\ excelUrl \in Urls \cup {""}
    /\ portfolioId \in {0, 1}
    /\ loading = TRUE /\ saving = FALSE /\ isModalVisible = FALSE
    /\ workbook = "" /\ currentSheet = ""
    /\ nreq = 1
    /\ pending = { [id |-> 1,
                    kind |-> IF excelUrl # "" THEN "loadExcel" ELSE "loadQuarterly",
                    method |-> "GET", target |-> 0, data |-> <<>>, file |-> NoFile,
                    info |-> NoInfo] }
    /\ lastResponse = NoResponse /\ notice = "none" /\ onSaveCalled = FALSE
    /\ returnedId = 0 /\ nextId = 2
    /\ UploadIdle
    /\ ViewIdle
    /\ RouteIdle
    /\ PageIdle

\* useEffect([excelUrl]): the parent passes another excelUrl
ExcelUrlChange ==
    /\ CanDispatch
    /\ \E u \in Urls \cup {""} :
         /\ u # excelUrl
         /\ excelUrl' = u
         /\ Dispatch(LoadRequest(u))
    /\ loading' = TRUE
    /\ Quiet
    /\ UNCHANGED <<phase, excelData, gridRows, edits, saving, isModalVisible, workbook,
                   currentSheet, portfolioId, returnedId, nextId, uploadVars, viewVars,
                   routeVars, pageVars>>

\* the reload button: loadQuarterlyReport up to its await
ClickReload ==
    /\ ~loading /\ ~isModalVisible
    /\ CanDispatch
    /\ loading' = TRUE
    /\ Dispatch(LoadRequest(""))
    /\ Quiet
    /\ UNCHANGED <<phase, excelData, gridRows, edits, saving, isModalVisible, workbook,
                   currentSheet, excelUrl, portfolioId, returnedId, nextId, uploadVars,
                   viewVars, routeVars, pageVars>>

\* loadQuarterlyReport after its await.  With data, setExcelData is followed by a call
\* of setFileName, which the component does not define: the ReferenceError lands in
\* the catch block.
LoadQuarterlyDone ==
    /\ \E r \in pending :
         /\ r.kind = "loadQuarterly"
         /\ pending' = pending \ {r}
         /\ \/ \E d \in EditorSheets :
                 /\ SetExcelData(d)
                 /\ lastResponse' = Response(r, "ok")
                 /\ notice' = "error"
            \/ /\ lastResponse' = Response(r, "nodata")
               /\ notice' = "none"
               /\ UNCHANGED <<excelData, gridRows>>
            \/ /\ lastResponse' = Response(r, "throw")
               /\ notice' = "error"
               /\ UNCHANGED <<excelData, gridRows>>
    /\ loading' = FALSE
    /\ onSaveCalled' = FALSE /\ download' = NoDownload
    /\ UNCHANGED <<phase, edits, saving, isModalVisible, workbook, currentSheet,
                   excelUrl, portfolioId, nreq, returnedId, nextId, uploadVars,
                   viewVars, routeVars, pageVars>>

\* loadExcelFile after its await.  The try block runs setWorkbook, setCurrentSheet,
\* the conversion of the first sheet and setExcelData in that order: a throw of the
\* request or of XLSX.read ("throw") comes before the first setter, a throw of the
\* conversion ("convertThrow") after the first two.
LoadExcelDone ==
    /\ \E r \in pending :
         /\ r.kind = "loadExcel"
         /\ pending' = pending \ {r}
         /\ \/ \E d \in EditorSheets :
                 /\ workbook' = "wb" /\ currentSheet' = "Sheet1"
                 /\ SetExcelData(d)
                 /\ lastResponse' = Response(r, "ok")
                 /\ notice' = "success"
            \/ /\ lastResponse' = Response(r, "throw")
               /\ notice' = "error"
               /\ UNCHANGED <<excelData, gridRows, workbook, currentSheet>>
            \/ /\ workbook' = "wb" /\ currentSheet' = "Sheet1"
               /\ lastResponse' = Response(r, "convertThrow")
               /\ notice' = "error"
               /\ UNCHANGED <<excelData, gridRows>>
    /\ loading' = FALSE
    /\ onSaveCalled' = FALSE /\ download' = NoDownload
    /\ UNCHANGED <<phase, edits, saving, isModalVisible, excelUrl, portfolioId, nreq,
                   returnedId, nextId, uploadVars, viewVars, routeVars, pageVars>>

\* handleSave up to its await
ClickSave ==
    /\ ~loading /\ ~isModalVisible
    /\ CanDispatch
    /\ loading' = TRUE
    /\ Dispatch(Request("saveFile", "POST", 0, GridData))
    /\ Quiet
    /\ UNCHANGED <<phase, excelData, gridRows, edits, saving, isModalVisible, workbook,
                   currentSheet, excelUrl, portfolioId, returnedId, nextId, uploadVars,
                   viewVars, routeVars, pageVars>>

\* handleSave after its await: the response's success field is not read
SaveFileDone ==
    /\ \E r \in pending :
         /\ r.kind = "saveFile"
         /\ pending' = pending \ {r}
         /\ \/ \E o \in {"ok", "reject"} :
                 /\ lastResponse' = Response(r, o)
                 /\ notice' = "success"
                 /\ onSaveCalled' = TRUE
            \/ /\ lastResponse' = Response(r, "throw")
               /\ notice' = "error"
               /\ onSaveCalled' = FALSE
    /\ loading' = FALSE
    /\ download' = NoDownload
    /\ UNCHANGED <<phase, excelData, gridRows, edits, saving, isModalVisible, workbook,
                   currentSheet, excelUrl, portfolioId, nreq, returnedId, nextId,
                   uploadVars, viewVars, routeVars, pageVars>>

\* the database button with a portfolioId: handleSaveToDatabase up to its await
HandleSaveToDatabase ==
    /\ portfolioId # 0
    /\ ~saving /\ ~isModalVisible
    /\ CanDispatch
    /\ saving' = TRUE
    /\ Dispatch(IF portfolioId # 0
                THEN Request("dbSave", "PUT", portfolioId, GridData)
                ELSE Request("dbSave", "POST", 0, GridData))
    /\ Quiet
    /\ UNCHANGED <<phase, excelData, gridRows, edits, loading, isModalVisible, workbook,
                   currentSheet, excelUrl, portfolioId, returnedId, nextId, uploadVars,
                   viewVars, routeVars, pageVars>>

\* what the component does with the response of a database save: a notification and
\* the callback on success, nothing on success = false, an error on a throw
DbOutcome(r, o) ==
    /\ lastResponse' = Response(r, o)
    /\ notice' = CASE o = "ok" -> "success" [] o = "reject" -> "none" [] OTHER -> "error"
    /\ onSaveCalled' = (o = "ok")

\* variant: setSaving(false) as the last statement of the try block, not in finally
SaveToDatabaseDoneNoFinally ==
    /\ \E r \in pending :
         /\ r.kind = "dbSave"
         /\ pending' = pending \ {r}
         /\ \E o \in {"ok", "reject", "throw"} :
              /\ DbOutcome(r, o)
              /\ IF o = "ok" /\ r.method = "POST"
                 THEN returnedId' = nextId /\ nextId' = nextId + 1
                 ELSE UNCHANGED <<returnedId, nextId>>
              /\ saving' = IF o = "throw" THEN saving ELSE FALSE
    /\ download' = NoDownload
    /\ UNCHANGED <<phase, excelData, gridRows, edits, loading, isModalVisible, workbook,
                   currentSheet, excelUrl, portfolioId, nreq, uploadVars, viewVars,
                   routeVars, pageVars>>

\* handleSaveToDatabase after its await
SaveToDatabaseDone ==
    /\ \E r \in pending :
         /\ r.kind = "dbSave"
         /\ pending' = pending \ {r}
         /\ \E o \in {"ok", "reject", "throw"} :
              /\ DbOutcome(r, o)
              /\ IF o = "ok" /\ r.method = "POST"
                 THEN returnedId' = nextId /\ nextId' = nextId + 1
                 ELSE UNCHANGED <<returnedId, nextId>>
    /\ saving' = FALSE
    /\ download' = NoDownload
    /\ UNCHANGED <<phase, excelData, gridRows, edits, loading, isModalVisible, workbook,
                   currentSheet, excelUrl, portfolioId, nreq, uploadVars, viewVars,
                   routeVars, pageVars>>

\* the database button without a portfolioId: showSaveModal
ShowSaveModal ==
    /\ portfolioId = 0
    /\ ~saving /\ ~isModalVisible
    /\ isModalVisible' = TRUE
    /\ Quiet
    /\ UNCHANGED <<phase, excelData, gridRows, edits, loading, saving, workbook,
                   currentSheet, excelUrl, portfolioId, pending, nreq, returnedId,
                   nextId, uploadVars, viewVars, routeVars, pageVars>>

\* handleModalOk with a form that fails validation: the rejection lands in the catch
ModalOkInvalid ==
    /\ isModalVisible /\ ~saving
    /\ lastResponse' = NoResponse
    /\ notice' = "error"
    /\ onSaveCalled' = FALSE /\ download' = NoDownload
    /\ saving' = FALSE
    /\ UNCHANGED <<phase, excelData, gridRows, edits, loading, isModalVisible, workbook,
                   currentSheet, excelUrl, portfolioId, pending, nreq, returnedId,
                   nextId, uploadVars, viewVars, routeVars, pageVars>>

\* handleModalOk with a valid form, up to the await of saveQuarterlyReport
ModalOkValid ==
    /\ isModalVisible /\ ~saving
    /\ CanDispatch
    /\ saving' = TRUE
    /\ Dispatch(Request("modalSave", "POST", 0, GridData))
    /\ Quiet
    /\ UNCHANGED <<phase, excelData, gridRows, edits, loading, isModalVisible, workbook,
                   currentSheet, excelUrl, portfolioId, returnedId, nextId, uploadVars,
                   viewVars, routeVars, pageVars>>

\* handleModalOk after its await; the portfolioId of the response is not kept
ModalOkDone ==
    /\ \E r \in pending :
         /\ r.kind = "modalSave"
         /\ pending' = pending \ {r}
         /\ \E o \in {"ok", "reject", "throw"} :
              /\ DbOutcome(r, o)
              /\ isModalVisible' = IF o = "ok" THEN FALSE ELSE isModalVisible
              /\ IF o = "ok"
                 THEN returnedId' = nextId /\ nextId' = nextId + 1
                 ELSE UNCHANGED <<returnedId, nextId>>
    /\ saving' = FALSE
    /\ download' = NoDownload
    /\ UNCHANGED <<phase, excelData, gridRows, edits, loading, workbook, currentSheet,
                   excelUrl, portfolioId, nreq, uploadVars, viewVars, routeVars, pageVars>>

HandleModalCancel ==
    /\ isModalVisible
    /\ isModalVisible' = FALSE
    /\ Quiet
    /\ UNCHANGED <<phase, excelData, gridRows, edits, loading, saving, workbook,
                   currentSheet, excelUrl, portfolioId, pending, nreq, returnedId,
                   nextId, uploadVars, viewVars, routeVars, pageVars>>

\* the text typed into a cell of the editor (SpecGrid also clears cells)
EditorEditValues == { Str(<<"x">>) }

\* a committed cell edit in the mounted, uncovered grid
EditorCellEdit ==
    /\ GridMounted(excelData) /\ ~loading /\ ~isModalVisible
    /\ edits < MaxEdits
    /\ \E n \in 1..Len(gridRows) :
         \E k \in 1..Len(gridRows[n].col) :
           \E v \in EditorEditValues :
             /\ gridRows[n].col[k] # v
             /\ gridRows' = SetCell(gridRows, n, k, v)
    /\ edits' = edits + 1
    /\ Quiet
    /\ UNCHANGED <<phase, excelData, loading, saving, isModalVisible, workbook,
                   currentSheet, excelUrl, portfolioId, pending, nreq, returnedId,
                   nextId, uploadVars, viewVars, routeVars, pageVars>>

\* handleDownload from the page
EditorDownload ==
    /\ ~isModalVisible
    /\ download' = [done |-> TRUE, data |-> GridData]
    /\ lastResponse' = NoResponse /\ notice' = "success" /\ onSaveCalled' = FALSE
    /\ UNCHANGED <<phase, excelData, gridRows, edits, loading, saving, isModalVisible,
                   workbook, currentSheet, excelUrl, portfolioId, pending, nreq,
                   returnedId, nextId, uploadVars, viewVars, routeVars, pageVars>>

NextEditor ==
    \/ ExcelUrlChange \/ ClickReload \/ LoadQuarterlyDone \/ LoadExcelDone
    \/ ClickSave \/ SaveFileDone
    \/ HandleSaveToDatabase \/ SaveToDatabaseDone
    \/ ShowSaveModal \/ ModalOkInvalid \/ ModalOkValid \/ ModalOkDone \/ HandleModalCancel
    \/ EditorCellEdit \/ EditorDownload

SpecEditor == InitEditor /\ [][NextEditor]_vars

(***************************************************************************)
(* SpecLoad: one mounted ExcelEditor whose only requests are loads, so the *)
(* request numbers order the loads by their start.                         *)
(***************************************************************************)
NextLoad == ExcelUrlChange \/ ClickReload \/ LoadQuarterlyDone \/ LoadExcelDone

SpecLoad == InitEditor /\ [][NextLoad]_vars

(***************************************************************************)
(* SpecUpload: the FileUpload component at step 0 of the FileUploadPage    *)
(* wizard.  The Dragger calls beforeUpload for a chosen file and then, for *)
(* every return value but Upload.LIST_IGNORE, onChange with the file in    *)
(* the list; a return of false only keeps the widget from uploading it.    *)
(***************************************************************************)
MimeTypes ==
    { <<"image", "jpeg">>, <<"image", "png">>, <<"application", "pdf">>,
      <<"application", "vnd.openxmlformats-officedocument.wordprocessingml.document">> }

MiB == 1024 * 1024

FileSizes == { 2 * MiB, 10 * MiB, 12 * MiB }

Files == [mime : MimeTypes, size : FileSizes]

\* file.type.startsWith('image/') || file.type === 'application/pdf'
IsValidType(f) == f.mime[1] = "image" \/ f.mime = <<"application", "pdf">>

\* file.size / 1024 / 1024 < 10
IsLt10M(f) == f.size < 10 * 1024 * 1024

\* the notification beforeUpload shows
BeforeUploadNotice(f) ==
    IF ~IsValidType(f) THEN "error"
    ELSE IF ~IsLt10M(f) THEN "error"
    ELSE "none"

\* the value beforeUpload returns: false on each of its three paths
BeforeUpload(f) == "false"

\* variant: the reported list is kept whole, without slice(-1)
HandleFileChangeKeepAll(list, f, returned) ==
    IF returned = "LIST_IGNORE" THEN list ELSE Append(list, f)

\* handleFileChange on the list the Dragger (maxCount 1) reports: slice(-1)
HandleFileChange(list, f, returned) ==
    IF returned = "LIST_IGNORE" THEN list ELSE <<f>>

\* the relatedPersonInfo that handleSubmit puts into every upload (description, which
\* no rule constrains, left out)
RelatedPersonInfo ==
    [name |-> <<>>, relationship |-> <<>>, idNumber |-> <<>>, phone |-> <<>>]

InitUpload ==
    /\ phase = "grid"
    /\ excelData = <<>> /\ gridRows = <<>> /\ edits = 0 /\ download = NoDownload
    /\ EditorIdle
    /\ UploadIdle
    /\ ViewIdle
    /\ RouteIdle
    /\ PageIdle

UploadQuiet == lastResponse' = NoResponse /\ sent' = NoFile /\ selected' = NoFile

\* the user picks or drops a file
SelectFile ==
    /\ currentStep = 0
    /\ \E f \in Files :
         /\ notice' = BeforeUploadNotice(f)
         /\ fileList' = HandleFileChange(fileList, f, BeforeUpload(f))
         /\ selected' = f
    /\ lastResponse' = NoResponse /\ sent' = NoFile
    /\ UNCHANGED <<gridVars, viewVars, routeVars, pageVars, loading, saving, isModalVisible,
                   workbook, currentSheet, excelUrl, portfolioId, pending, nreq,
                   onSaveCalled, returnedId, nextId, uploading, currentStep,
                   pageExcelUrl, pageFileName>>

\* the remove icon of the listed file
RemoveFile ==
    /\ currentStep = 0 /\ fileList # <<>>
    /\ fileList' = <<>>
    /\ notice' = "none"
    /\ UploadQuiet
    /\ UNCHANGED <<gridVars, viewVars, routeVars, pageVars, loading, saving, isModalVisible,
                   workbook, currentSheet, excelUrl, portfolioId, pending, nreq,
                   onSaveCalled, returnedId, nextId, uploading, currentStep,
                   pageExcelUrl, pageFileName>>

\* handleSubmit up to its await; the button is disabled for an empty list and ignores
\* clicks while uploading
HandleSubmit ==
    /\ currentStep = 0
    /\ ~uploading /\ Len(fileList) # 0
    /\ CanDispatch
    /\ uploading' = TRUE
    /\ Dispatch([id |-> nreq + 1, kind |-> "upload", method |-> "POST", target |-> 0,
                 data |-> <<>>, file |-> fileList[1], info |-> RelatedPersonInfo])
    /\ sent' = fileList[1]
    /\ selected' = NoFile
    /\ lastResponse' = NoResponse /\ notice' = "none"
    /\ UNCHANGED <<gridVars, viewVars, routeVars, pageVars, loading, saving, isModalVisible,
                   workbook, currentSheet, excelUrl, portfolioId, onSaveCalled,
                   returnedId, nextId, fileList, currentStep, pageExcelUrl,
                   pageFileName>>

\* what the recognition service does with POST /v1/upload: it answers with a
\* spreadsheet ("ok", "okNoName" when the answer names no file), answers
\* success = false ("reject"), or the request fails in transport ("fail")
UploadOutcomes == {"ok", "okNoName", "reject", "fail"}

\* variant: the catch block rethrows the transport failure
UploadFileAndGetExcelRethrow(o) ==
    CASE o = "ok" ->
           [thrown |-> FALSE, success |-> TRUE, excelUrl |-> "/generated.xlsx",
            fileName |-> "generated.xlsx"]
      [] o = "okNoName" ->
           [thrown |-> FALSE, success |-> TRUE, excelUrl |-> "/generated.xlsx",
            fileName |-> ""]
      [] o = "reject" ->
           [thrown |-> FALSE, success |-> FALSE, excelUrl |-> "", fileName |-> ""]
      [] o = "fail" ->
           [thrown |-> TRUE, success |-> FALSE, excelUrl |-> "", fileName |-> ""]

\* uploadFileAndGetExcel: response.data of the answer; the catch block turns a transport
\* failure into a success response that names /example.xlsx
UploadFileAndGetExcel(o) ==
    CASE o = "ok" ->
           [thrown |-> FALSE, success |-> TRUE, excelUrl |-> "/generated.xlsx",
            fileName |-> "generated.xlsx"]
      [] o = "okNoName" ->
           [thrown |-> FALSE, success |-> TRUE, excelUrl |-> "/generated.xlsx",
            fileName |-> ""]
      [] o = "reject" ->
           [thrown |-> FALSE, success |-> FALSE, excelUrl |-> "", fileName |-> ""]
      [] o = "fail" ->
           [thrown |-> FALSE, success |-> TRUE, excelUrl |-> "/example.xlsx",
            fileName |-> "example.xlsx"]

\* handleSubmit after its await: on success the notification, onUploadSuccess
\* (handleUploadSuccess of the page) and setFileList([]); otherwise the error
SubmitDone ==
    /\ \E r \in pending :
         /\ r.kind = "upload"
         /\ pending' = pending \ {r}
         /\ \E o \in UploadOutcomes :
              LET response == UploadFileAndGetExcel(o)
              IN  /\ lastResponse' = Response(r, o)
                  /\ IF ~response.thrown /\ response.success /\ response.excelUrl # ""
                     THEN /\ notice' = "success"
                          /\ pageExcelUrl' = response.excelUrl
                          /\ pageFileName' = IF response.fileName # ""
                                             THEN response.fileName ELSE "result.xlsx"
                          /\ currentStep' = 1
                          /\ fileList' = <<>>
                     ELSE /\ notice' = "error"
                          /\ UNCHANGED <<pageExcelUrl, pageFileName, currentStep,
                                         fileList>>
    /\ uploading' = FALSE
    /\ sent' = NoFile /\ selected' = NoFile
    /\ UNCHANGED <<gridVars, viewVars, routeVars, pageVars, loading, saving, isModalVisible,
                   workbook, currentSheet, excelUrl, portfolioId, nreq, onSaveCalled,
                   returnedId, nextId>>

\* handleExcelSave: the editor's onSave moves the wizard to its last step
HandleExcelSave ==
    /\ currentStep = 1
    /\ currentStep' = 2
    /\ notice' = "none"
    /\ UploadQuiet
    /\ UNCHANGED <<gridVars, viewVars, routeVars, pageVars, loading, saving, isModalVisible,
                   workbook, currentSheet, excelUrl, portfolioId, pending, nreq,
                   onSaveCalled, returnedId, nextId, fileList, uploading, pageExcelUrl,
                   pageFileName>>

\* the "continue editing" link of the last step
ContinueEditing ==
    /\ currentStep = 2
    /\ currentStep' = 1
    /\ notice' = "none"
    /\ UploadQuiet
    /\ UNCHANGED <<gridVars, viewVars, routeVars, pageVars, loading, saving, isModalVisible,
                   workbook, currentSheet, excelUrl, portfolioId, pending, nreq,
                   onSaveCalled, returnedId, nextId, fileList, uploading, pageExcelUrl,
                   pageFileName>>

\* handleRestart: back to step 0, where FileUpload mounts anew
HandleRestart ==
    /\ currentStep \in {1, 2}
    /\ currentStep' = 0
    /\ pageExcelUrl' = "" /\ pageFileName' = ""
    /\ fileList' = <<>> /\ uploading' = FALSE
    /\ notice' = "none"
    /\ UploadQuiet
    /\ UNCHANGED <<gridVars, viewVars, routeVars, pageVars, loading, saving, isModalVisible,
                   workbook, currentSheet, excelUrl, portfolioId, pending, nreq,
                   onSaveCalled, returnedId, nextId>>

NextUpload ==
    \/ SelectFile \/ RemoveFile \/ HandleSubmit \/ SubmitDone
    \/ HandleExcelSave \/ ContinueEditing \/ HandleRestart

SpecUpload == InitUpload /\ [][NextUpload]_vars

(***************************************************************************)
(* SpecWizard: the FileUploadPage with the component of its step mounted.  *)
(* ExcelEditor is rendered at step 1 only: leaving step 1 unmounts it and  *)
(* entering step 1 mounts a new instance.  The variables of an unmounted   *)
(* editor keep the values it had last; nothing reads them.  A handler that *)
(* awaits a response runs on after its instance is unmounted: its setters  *)
(* do nothing, its call of onSave reaches the page.  The requests of an    *)
(* unmounted instance are followed until the next instance is mounted.     *)
(***************************************************************************)
\* a new ExcelEditor instance: useState's initial values and the effect of lines
\* 48-55, which starts the load of the url it was given
MountExcelEditor(url) ==
    /\ excelData' = <<>> /\ gridRows' = <<>> /\ edits' = 0
    /\ loading' = TRUE /\ saving' = FALSE /\ isModalVisible' = FALSE
    /\ workbook' = "" /\ currentSheet' = ""
    /\ excelUrl' = url
    /\ pending' = {LoadRequest(url)} /\ nreq' = nreq + 1

\* handleUploadSuccess(url, name): FileUpload reports a successful upload
HandleUploadSuccess ==
    /\ currentStep = 0
    /\ CanDispatch
    /\ \E o \in {"ok", "fail"} :
         /\ pageExcelUrl' = UploadFileAndGetExcel(o).excelUrl
         /\ pageFileName' = UploadFileAndGetExcel(o).fileName
         /\ MountExcelEditor(UploadFileAndGetExcel(o).excelUrl)
    /\ currentStep' = 1
    /\ Quiet
    /\ UNCHANGED <<phase, portfolioId, returnedId, nextId, fileList, uploading, sent,
                   selected, viewVars, routeVars, pageVars>>

\* handleSave after its await, with onSave = handleExcelSave: a response that does
\* not throw is followed by onSave(currentData), which moves the page to step 2
SaveFileDoneOnSave ==
    /\ \E r \in pending :
         /\ r.kind = "saveFile"
         /\ pending' = pending \ {r}
         /\ \/ \E o \in {"ok", "reject"} :
                 /\ lastResponse' = Response(r, o)
                 /\ notice' = "success"
                 /\ onSaveCalled' = TRUE
                 /\ currentStep' = 2
            \/ /\ lastResponse' = Response(r, "throw")
               /\ notice' = "error"
               /\ onSaveCalled' = FALSE
               /\ UNCHANGED currentStep
    /\ loading' = FALSE
    /\ download' = NoDownload
    /\ UNCHANGED <<phase, excelData, gridRows, edits, saving, isModalVisible, workbook,
                   currentSheet, excelUrl, portfolioId, nreq, returnedId, nextId,
                   fileList, uploading, pageExcelUrl, pageFileName, sent, selected,
                   viewVars, routeVars, pageVars>>

\* the "continue editing" link: setCurrentStep(1) renders ExcelEditor again
ContinueEditingMount ==
    /\ currentStep = 2
    /\ CanDispatch
    /\ currentStep' = 1
    /\ MountExcelEditor(pageExcelUrl)
    /\ Quiet
    /\ UNCHANGED <<phase, portfolioId, returnedId, nextId, fileList, uploading,
                   pageExcelUrl, pageFileName, sent, selected, viewVars, routeVars,
                   pageVars>>

NextWizard ==
    \/ HandleUploadSuccess
    \/ currentStep = 1 /\ (LoadExcelDone \/ EditorCellEdit \/ ClickSave)
    \/ SaveFileDoneOnSave
    \/ ContinueEditingMount
    \/ HandleRestart

SpecWizard == InitUpload /\ [][NextWizard]_vars

(***************************************************************************)
(* SpecRoute: the routes of App.tsx under the session of AuthProvider.     *)
(* React renders after every change of the session or of the location, and *)
(* a Navigate element replaces the location at once, so every step ends    *)
(* with the element the routes settle on.                                  *)
(***************************************************************************)
\* UserRole
ADMIN == "admin"
USER  == "user"

\* the roles a user record can carry: those of UserRole, and a value the enum does not
\* name, for which ProtectedRoute has its last redirect
Roles == { ADMIN, USER, "other" }

ProtectedPaths ==
    { "/admin/dashboard", "/upload", "/family-members", "/securities-reports",
      "/investment-records", "/quarterly-report" }

\* the paths a visitor asks for; "/other" stands for every path only "*" matches
Paths == ProtectedPaths \cup { "/login", "/", "/other" }

Page(name)   == [navigate |-> FALSE, to |-> "", screen |-> name]
Navigate(to) == [navigate |-> TRUE, to |-> to, screen |-> ""]

\* the value of useAuth()
UseAuth == [isAuthenticated |-> isAuthenticated, isLoading |-> isLoading, user |-> user]

\* variant: the role of the user is not compared with requiredRole
ProtectedRouteAnyRole(children, requiredRole, auth) ==
    IF auth.isLoading THEN Page("Loading")
    ELSE IF ~auth.isAuthenticated THEN Navigate("/login")
    ELSE Page(children)

\* ProtectedRoute; requiredRole is "" where the route passes none
ProtectedRoute(children, requiredRole, auth) ==
    IF auth.isLoading THEN Page("Loading")
    ELSE IF ~auth.isAuthenticated THEN Navigate("/login")
    ELSE IF requiredRole # "" /\ auth.user # requiredRole
         THEN IF requiredRole = ADMIN /\ auth.user = USER THEN Navigate("/upload")
              ELSE Navigate("/login")
    ELSE Page(children)

\* the element of the route that matches path
RouteElement(path, auth) ==
    CASE path = "/login" ->
           IF auth.isAuthenticated
           THEN IF auth.user = ADMIN THEN Navigate("/admin/dashboard")
                ELSE Navigate("/upload")
           ELSE Page("LoginPage")
      [] path = "/admin/dashboard"    -> ProtectedRoute("AdminDashboard", ADMIN, auth)
      [] path = "/upload"             -> ProtectedRoute("FileUploadPage", "", auth)
      [] path = "/family-members"     -> ProtectedRoute("FamilyMemberPage", "", auth)
      [] path = "/securities-reports" -> ProtectedRoute("SecuritiesReportPage", "", auth)
      [] path = "/investment-records" -> ProtectedRoute("InvestmentRecords", "", auth)
      [] path = "/quarterly-report"   -> ProtectedRoute("QuarterlyReportPage", "", auth)
      [] path = "/" ->
           IF auth.isAuthenticated
           THEN IF auth.user = ADMIN THEN Navigate("/admin/dashboard")
                ELSE Navigate("/family-members")
           ELSE Navigate("/login")
      [] OTHER -> Navigate("/")

\* the location and the element the routes settle on for a visit of path
RECURSIVE Settle(_, _)
Settle(path, auth) ==
    LET element == RouteElement(path, auth)
    IN  IF element.navigate THEN Settle(element.to, auth)
        ELSE [location |-> path, screen |-> element.screen]

\* the session becomes auth, and the routes settle for path in the render that follows
RenderRoutes(path, auth) ==
    /\ isAuthenticated' = auth.isAuthenticated
    /\ isLoading' = auth.isLoading
    /\ user' = auth.user
    /\ location' = Settle(path, auth).location
    /\ screen' = Settle(path, auth).screen

\* what authService.login stores
StoredSession == {"access_token", "user_info"}

\* the page is loaded at a path: useState(null), useState(true), first render; the
\* storage holds the session of an earlier visit, or nothing
InitRoute ==
    /\ phase = "grid"
    /\ excelData = <<>> /\ gridRows = <<>> /\ edits = 0 /\ download = NoDownload
    /\ EditorIdle
    /\ UploadIdle
    /\ ViewIdle
    /\ reports = <<>> /\ backendReports = <<>>
    /\ dialogOpen = FALSE /\ editingReport = 0
    /\ localStorage \in {{}, StoredSession}
    /\ isAuthenticated = FALSE /\ isLoading = TRUE /\ user = ""
    /\ requested \in Paths
    /\ location = Settle(requested, UseAuth).location
    /\ screen = Settle(requested, UseAuth).screen

\* what the routes leave alone
routeRest ==
    <<phase, excelData, gridRows, edits, loading, saving, isModalVisible, workbook,
      currentSheet, excelUrl, portfolioId, returnedId, nextId, uploadVars, viewVars,
      reportVars>>

\* initializeAuth: the stored session is removed, setUser(null), setIsLoading(false)
InitializeAuth ==
    /\ isLoading
    /\ localStorage' = {}
    /\ RenderRoutes(location, [isAuthenticated |-> FALSE, isLoading |-> FALSE, user |-> ""])
    /\ Quiet
    /\ UNCHANGED <<requested, pending, nreq, routeRest>>

\* handleSubmit of the login page up to its await: authService.login is in flight and
\* the button is disabled
LoginSubmit ==
    /\ ~isLoading /\ screen = "LoginPage"
    /\ pending = {}
    /\ CanDispatch
    /\ Dispatch(Request("login", "POST", 0, <<>>))
    /\ Quiet
    /\ UNCHANGED <<routeVars, localStorage, routeRest>>

\* handleSubmit of the login page after its await.  On success authService.login has
\* stored the token and the user: login(response.user, ...) and navigate() to the
\* page of the role.  On a rejection the page shows the error.
LoginDone ==
    /\ \E r \in pending :
         /\ r.kind = "login"
         /\ pending' = pending \ {r}
         /\ \/ \E role \in Roles :
                 LET path == IF role = ADMIN THEN "/admin/dashboard" ELSE "/upload"
                 IN  /\ requested' = path
                     /\ localStorage' = StoredSession
                     /\ RenderRoutes(path, [UseAuth EXCEPT !.isAuthenticated = TRUE,
                                                            !.user = role])
                     /\ lastResponse' = Response(r, "ok")
                     /\ notice' = "none"
            \/ /\ lastResponse' = Response(r, "throw")
               /\ notice' = "error"
               /\ UNCHANGED <<routeVars, localStorage>>
    /\ onSaveCalled' = FALSE /\ download' = NoDownload
    /\ UNCHANGED <<nreq, routeRest>>

\* updateUser(userData): setUser and setItem('user_info'); the stored token, if any,
\* stays.  isAuthenticated is !!user && authService.isAuthenticated().
UpdateUser ==
    /\ ~isLoading
    /\ localStorage' = localStorage \cup {"user_info"}
    /\ \E role \in Roles :
         /\ role # user
         /\ RenderRoutes(location,
                [UseAuth EXCEPT !.user = role,
                                !.isAuthenticated = StoredSession \subseteq localStorage'])
    /\ Quiet
    /\ UNCHANGED <<requested, pending, nreq, routeRest>>

\* the visitor follows a link to a path
Visit ==
    /\ \E path \in Paths :
         /\ requested' = path
         /\ RenderRoutes(path, UseAuth)
    /\ Quiet
    /\ UNCHANGED <<pending, nreq, localStorage, routeRest>>

\* logout(), and the response interceptor on a 401: the stored session is removed and
\* window.location.href = '/login' loads the page anew, which ends what was in flight
Logout ==
    /\ isAuthenticated
    /\ requested' = "/login"
    /\ localStorage' = {}
    /\ RenderRoutes("/login", [isAuthenticated |-> FALSE, isLoading |-> TRUE, user |-> ""])
    /\ pending' = {}
    /\ Quiet
    /\ UNCHANGED <<nreq, routeRest>>

\* refreshUser up to its await: authService.getCurrentUser is called only with a
\* stored session
RefreshUser ==
    /\ ~isLoading
    /\ StoredSession \subseteq localStorage
    /\ CanDispatch
    /\ Dispatch(Request("refreshUser", "GET", 0, <<>>))
    /\ Quiet
    /\ UNCHANGED <<routeVars, localStorage, routeRest>>

\* refreshUser after its await: getCurrentUser has stored the user it received and
\* setUser follows; a rejection ends in logout()
RefreshUserDone ==
    /\ \E r \in pending :
         /\ r.kind = "refreshUser"
         /\ \/ \E role \in Roles :
                 /\ pending' = pending \ {r}
                 /\ localStorage' = localStorage \cup {"user_info"}
                 /\ RenderRoutes(location,
                        [UseAuth EXCEPT !.user = role,
                                        !.isAuthenticated =
                                            StoredSession \subseteq localStorage'])
                 /\ lastResponse' = Response(r, "ok")
                 /\ UNCHANGED requested
            \/ /\ pending' = {}
               /\ localStorage' = {}
               /\ requested' = "/login"
               /\ RenderRoutes("/login",
                      [isAuthenticated |-> FALSE, isLoading |-> TRUE, user |-> ""])
               /\ lastResponse' = Response(r, "throw")
    /\ notice' = "none" /\ onSaveCalled' = FALSE /\ download' = NoDownload
    /\ UNCHANGED <<nreq, routeRest>>

NextRoute ==
    \/ InitializeAuth \/ LoginSubmit \/ LoginDone \/ UpdateUser \/ Visit \/ Logout
    \/ RefreshUser \/ RefreshUserDone

SpecRoute == InitRoute /\ [][NextRoute]_vars

(***************************************************************************)
(* SpecReport: the SecuritiesReportPage of one signed-in user.  The page   *)
(* lists the reports as its last successful fetchReports returned them;    *)
(* the backend holds the status each report has now.  Review and delete    *)
(* are not followed: the backend starts with reports of every status.      *)
(***************************************************************************)
\* REPORT_STATUS
ReportStatus == { "draft", "submitted", "approved", "rejected" }

\* the icon buttons of a table row, by the status the listed report carries
RowActions(status, role) ==
    (IF status = "draft" THEN {"edit", "submit", "delete"} ELSE {})
      \cup (IF status = "submitted" /\ role = ADMIN THEN {"review"} ELSE {})
      \cup (IF status \in {"submitted", "approved"} /\ role = ADMIN THEN {"delete"} ELSE {})

\* the page is rendered, its effects have not run yet
InitReport ==
    /\ phase = "grid"
    /\ excelData = <<>> /\ gridRows = <<>> /\ edits = 0 /\ download = NoDownload
    /\ EditorIdle
    /\ UploadIdle
    /\ ViewIdle
    /\ isAuthenticated = TRUE /\ isLoading = FALSE /\ user \in {ADMIN, USER}
    /\ location = "/" /\ screen = "none" /\ requested = "/"
    /\ reports = <<>>
    /\ backendReports \in UNION { [1..n -> ReportStatus] : n \in 0..MaxReports }
    /\ dialogOpen = FALSE /\ editingReport = 0
    /\ localStorage = {"access_token", "user_info"}

\* what the page leaves alone
reportRest ==
    <<phase, excelData, gridRows, edits, saving, isModalVisible, workbook, currentSheet,
      excelUrl, portfolioId, returnedId, nextId, uploadVars, viewVars, routeVars,
      localStorage>>

\* fetchReports() as a page completion calls it: setLoading(true) and the GET; it is
\* not awaited, so the caller's finally block then runs setLoading(false)
RefreshAfter(r) ==
    /\ pending' = (pending \ {r}) \cup {Request("fetchReports", "GET", 0, <<>>)}
    /\ nreq' = nreq + 1

\* useEffect([page, filterStatus, ...]): fetchReports up to its await
FetchReports ==
    /\ ~dialogOpen
    /\ CanDispatch
    /\ Dispatch(Request("fetchReports", "GET", 0, <<>>))
    /\ loading' = TRUE
    /\ Quiet
    /\ UNCHANGED <<reportVars, reportRest>>

\* fetchReports after its await: setReports(data.items), or the error
FetchReportsDone ==
    /\ \E r \in pending :
         /\ r.kind = "fetchReports"
         /\ pending' = pending \ {r}
         /\ \/ /\ reports' = backendReports
               /\ lastResponse' = Response(r, "ok")
               /\ notice' = "none"
            \/ /\ lastResponse' = Response(r, "throw")
               /\ notice' = "error"
               /\ UNCHANGED reports
    /\ loading' = FALSE
    /\ onSaveCalled' = FALSE /\ download' = NoDownload
    /\ UNCHANGED <<backendReports, dialogOpen, editingReport, nreq, reportRest>>

\* openEditDialog(report?): the add button (0), or the edit button of a row
OpenEditDialog ==
    /\ ~dialogOpen
    /\ \E i \in {0} \cup {n \in DOMAIN reports : "edit" \in RowActions(reports[n], user)} :
         editingReport' = i
    /\ dialogOpen' = TRUE
    /\ Quiet
    /\ UNCHANGED <<reports, backendReports, loading, pending, nreq, reportRest>>

\* the dialog's cancel button and onClose: setDialogOpen(false)
CloseDialog ==
    /\ dialogOpen
    /\ dialogOpen' = FALSE
    /\ Quiet
    /\ UNCHANGED <<reports, backendReports, editingReport, loading, pending, nreq,
                   reportRest>>

\* saveReport up to its await: PUT of the report in the dialog, POST of a new one
SaveReport ==
    /\ dialogOpen /\ ~loading
    /\ CanDispatch
    /\ Dispatch(Request("saveReport", IF editingReport # 0 THEN "PUT" ELSE "POST",
                        editingReport, <<>>))
    /\ loading' = TRUE
    /\ Quiet
    /\ UNCHANGED <<reportVars, reportRest>>

\* saveReport after its await.  The backend stores a new report as a draft (while it
\* has room for one) and keeps the status of an updated one.
SaveReportDone ==
    /\ \E r \in pending :
         /\ r.kind = "saveReport"
         /\ \/ /\ CanDispatch
               /\ r.method = "POST" => Len(backendReports) < MaxReports
               /\ backendReports' = IF r.method = "POST"
                                    THEN Append(backendReports, "draft")
                                    ELSE backendReports
               /\ dialogOpen' = FALSE /\ editingReport' = 0
               /\ RefreshAfter(r)
               /\ lastResponse' = Response(r, "ok")
               /\ notice' = "success"
            \/ /\ pending' = pending \ {r}
               /\ lastResponse' = Response(r, "throw")
               /\ notice' = "error"
               /\ UNCHANGED <<backendReports, dialogOpen, editingReport, nreq>>
    /\ loading' = FALSE
    /\ onSaveCalled' = FALSE /\ download' = NoDownload
    /\ UNCHANGED <<reports, reportRest>>

\* submitReport(id) up to its await, the confirm box answered with OK
SubmitReport ==
    /\ ~dialogOpen
    /\ CanDispatch
    /\ \E i \in DOMAIN reports :
         /\ "submit" \in RowActions(reports[i], user)
         /\ Dispatch(Request("submitReport", "POST", i, <<>>))
    /\ loading' = TRUE
    /\ Quiet
    /\ UNCHANGED <<reportVars, reportRest>>

\* submitReport after its await: with response.ok the backend holds the report as
\* submitted, the page shows the success and starts fetchReports
SubmitReportDone ==
    /\ \E r \in pending :
         /\ r.kind = "submitReport"
         /\ \/ /\ CanDispatch
               /\ backendReports' = [backendReports EXCEPT ![r.target] = "submitted"]
               /\ RefreshAfter(r)
               /\ lastResponse' = Response(r, "ok")
               /\ notice' = "success"
            \/ /\ pending' = pending \ {r}
               /\ lastResponse' = Response(r, "throw")
               /\ notice' = "error"
               /\ UNCHANGED <<backendReports, nreq>>
    /\ loading' = FALSE
    /\ onSaveCalled' = FALSE /\ download' = NoDownload
    /\ UNCHANGED <<reports, dialogOpen, editingReport, reportRest>>

NextReport ==
    \/ FetchReports \/ FetchReportsDone \/ OpenEditDialog \/ CloseDialog
    \/ SaveReport \/ SaveReportDone \/ SubmitReport \/ SubmitReportDone

SpecReport == InitReport /\ [][NextReport]_vars

(***************************************************************************)
(* SpecBusy: the two components that own busy flags, each mounted alone:   *)
(* a behaviour is one of SpecEditor, or one of SpecUpload with phase set   *)
(* to "upload".                                                            *)
(***************************************************************************)
InitBusy ==
    \/ InitEditor
    \/ /\ phase = "upload"
       /\ excelData = <<>> /\ gridRows = <<>> /\ edits = 0 /\ download = NoDownload
       /\ EditorIdle
       /\ UploadIdle
       /\ ViewIdle
       /\ RouteIdle
       /\ PageIdle
    /\ ViewIdle
    /\ RouteIdle
    /\ PageIdle

NextBusy ==
    \/ phase = "grid" /\ NextEditor
    \/ phase = "upload" /\ NextUpload

SpecBusy == InitBusy /\ [][NextBusy]_vars

(***************************************************************************)
(* Properties of the adapter, checked under SpecGrid.                      *)
(***************************************************************************)
\* a row whose every cell is a string with at least one non-blank character
HeaderLike(row) ==
    \A i \in 1..Len(row) :
        /\ row[i].t = "str"
        /\ \E j \in 1..Len(row[i].v) : row[i].v[j] # " "

\* the length of the widest row
Width(data) ==
    CHOOSE w \in { Len(data[r]) : r \in 1..Len(data) } :
        \A r \in 1..Len(data) : Len(data[r]) <= w

\* row n of the grid is row r of the sheet, blank for every falsy or missing cell
ProjectsRow(n, r) ==
    /\ Len(gridRows[n].col) = Width(excelData)
    /\ \A k \in 1..Width(excelData) :
         gridRows[n].col[k] =
            IF k <= Len(excelData[r]) /\ Truthy(excelData[r][k])
            THEN excelData[r][k] ELSE EmptyStr

Rendered == phase = "grid" /\ edits = 0 /\ Len(excelData) > 0

RaggedFirstRow == Len(excelData) > 0 /\ Len(excelData[1]) < Width(excelData)

\* C1 as stated: a first row shorter than the widest row is never a header, so every
\* row of the sheet is a data row, blank-padded to maxCols.
C1_RaggedRowIsData ==
    (Rendered /\ RaggedFirstRow) =>
        /\ Len(gridRows) = Len(excelData)
        /\ \A n \in 1..Len(gridRows) : ProjectsRow(n, n)

\* C1 amended: a first row shorter than the widest row is judged by its own cells
\* alone: if each of them is a non-blank string it is the header and the other rows
\* are the data rows, otherwise every row is a data row; each data row is blank-padded
\* to maxCols.
C1_RaggedRowJudgedByOwnCells ==
    (Rendered /\ RaggedFirstRow) =>
        LET skip == IF HeaderLike(excelData[1]) THEN 1 ELSE 0
        IN  /\ Len(gridRows) = Len(excelData) - skip
            /\ \A n \in 1..Len(gridRows) : ProjectsRow(n, n + skip)

C1_Witness ==
    /\ phase = "grid" /\ excelData = RaggedSheet
    /\ Len(gridRows) = 1
    /\ gridRows[1].col = RaggedSheet[2]

\* C2: row 0 is the header row, and no data row, exactly if every cell of row 0 is a
\* string that is non-empty after trimming (an empty row 0 included); otherwise row 0
\* is the first data row and every column gets a synthetic name.
C2_HeaderInference ==
    Rendered =>
        IF HeaderLike(excelData[1])
        THEN /\ Len(gridRows) = Len(excelData) - 1
             /\ \A n \in 1..Len(gridRows) : ProjectsRow(n, n + 1)
             /\ \A k \in 1..Len(excelData[1]) :
                  ColumnDefs[k].headerName = excelData[1][k].v
        ELSE /\ Len(gridRows) = Len(excelData)
             /\ ProjectsRow(1, 1)
             /\ \A k \in 1..Len(ColumnDefs) :
                  ColumnDefs[k].headerName = <<ColumnGlyph>> \o ToDecimal(k)

C2_Witness ==
    /\ phase = "grid" /\ Len(excelData) = 2
    /\ excelData[1] = <<>> /\ Len(excelData[2]) = 2
    /\ Len(gridRows) = 1

Synthetic(columnDefs) ==
    \A k \in 1..Len(columnDefs) : columnDefs[k].headerName = <<ColumnGlyph>> \o ToDecimal(k)

\* C3 as stated: for the sheet of digit strings [["5","6"],["7","8"]] both columns get
\* synthetic headers and there are two data rows, the first being ["5","6"].
C3_DigitStringsAreData ==
    (phase = "grid" /\ edits = 0 /\ excelData = DigitSheet) =>
        /\ Len(ColumnDefs) = 2 /\ Synthetic(ColumnDefs)
        /\ Len(gridRows) = 2
        /\ gridRows[1].col = DigitSheet[1]

\* C3 amended: the digit strings of [["5","6"],["7","8"]] are strings, so row 0 is the
\* header (columns "5" and "6") and ["7","8"] is the one data row; for the numeric
\* sheet [[5,6],[7,8]] both columns get synthetic headers and there are two data rows,
\* the first being [5,6].
C3_NumbersAreDataDigitStringsAreHeaders ==
    (phase = "grid" /\ edits = 0) =>
        /\ excelData = DigitSheet =>
             /\ Len(ColumnDefs) = 2
             /\ ColumnDefs[1].headerName = <<"5">> /\ ColumnDefs[2].headerName = <<"6">>
             /\ Len(gridRows) = 1
             /\ gridRows[1].col = DigitSheet[2]
        /\ excelData = NumberSheet =>
             /\ Len(ColumnDefs) = 2 /\ Synthetic(ColumnDefs)
             /\ Len(gridRows) = 2
             /\ gridRows[1].col = NumberSheet[1]
             /\ gridRows[2].col = NumberSheet[2]

C3_Witness ==
    /\ phase = "grid" /\ edits = 0
    /\ excelData = DigitSheet
    /\ Len(gridRows) = 1 /\ ColumnDefs[1].headerName = <<"5">>

\* C8: reconciling a sheet through the grid with no edits is idempotent: the array the
\* unedited grid gives, loaded again and reconciled, gives the same array.
C8_ReconcileIdempotent ==
    (phase = "grid" /\ edits = 0 /\ download.done) =>
        /\ download.data = Reconcile(excelData)
        /\ Reconcile(download.data) = download.data

C8_Witness ==
    /\ phase = "grid" /\ edits = 0 /\ download.done
    /\ excelData = NumberSheet
    /\ Len(download.data) = 3
    /\ Reconcile(download.data) = download.data

\* C9: for a sheet with at least one row and one column, the array the unedited grid
\* gives has len(S) rows if row 0 was inferred as the header and len(S) + 1 rows if
\* not, the rows of S then following a synthesized header row; its first row is
\* always a row of non-blank strings.
C9_HeaderSynthesis ==
    (Rendered /\ download.done /\ Width(excelData) >= 1) =>
        LET out == download.data
            add == IF HeaderLike(excelData[1]) THEN 0 ELSE 1
        IN  /\ Len(out) = Len(excelData) + add
            /\ Len(out[1]) = Width(excelData)
            /\ HeaderLike(out[1])
            /\ \A r \in (2 - add)..Len(excelData) :
                 \A k \in 1..Len(excelData[r]) :
                   Truthy(excelData[r][k]) => out[r + add][k] = excelData[r][k]

C9_Witness ==
    /\ Rendered /\ download.done
    /\ excelData = PaddedSheet
    /\ Len(download.data) = 3
    /\ download.data[1] = <<Str(<<ColumnGlyph, "1">>), Str(<<ColumnGlyph, "2">>)>>

\* C10: the array getGridData gives for a mounted grid is the display headers of the
\* column definitions, in order, followed by one row per row object with that row's
\* values in column order, "" for a missing or empty value; every row has exactly
\* columnDefs.length entries, so the row id is not among them.
C10_FromGridShape ==
    (phase = "grid" /\ download.done /\ Len(excelData) > 0) =>
        LET out == download.data
        IN  /\ Len(out) = Len(gridRows) + 1
            /\ \A n \in 1..Len(out) : Len(out[n]) = Len(ColumnDefs)
            /\ \A k \in 1..Len(ColumnDefs) : out[1][k] = Str(ColumnDefs[k].headerName)
            /\ \A n \in 1..Len(gridRows) :
                 \A k \in 1..Len(ColumnDefs) :
                   out[n + 1][k] =
                      IF gridRows[n].col[k] \in {Null, EmptyStr} THEN EmptyStr
                      ELSE gridRows[n].col[k]

C10_Witness ==
    /\ phase = "grid" /\ download.done /\ edits = 1
    /\ excelData = HeaderSheet
    /\ gridRows[1].col = <<Str(<<"A">>), Null>>
    /\ download.data = << <<Str(<<"N", "a", "m", "e">>), Str(<<"A", "g", "e">>)>>,
                          <<Str(<<"A">>), EmptyStr>> >>

\* C11: the number of column definitions is maxCols, the length of the longest row of
\* the sheet; the columns are col0 .. col{maxCols-1} in order, and every row object
\* has a value for each of them, "" where the sheet's row has no cell.
C11_ToGridWidth ==
    (phase = "grid" /\ Len(excelData) > 0) =>
        LET w    == Width(excelData)
            cols == ColumnDefs
            rows == RowData
            skip == Len(excelData) - Len(rows)
        IN  /\ Len(cols) = w
            /\ \A k \in 1..w : cols[k].field = k - 1
            /\ \A n \in 1..Len(rows) :
                 /\ Len(rows[n].col) = w
                 /\ \A k \in 1..w :
                      k > Len(excelData[n + skip]) => rows[n].col[k] = EmptyStr
            /\ \A n \in 1..Len(gridRows) : Len(gridRows[n].col) = w

C11_Witness ==
    /\ phase = "grid" /\ Len(excelData) = 2
    /\ Len(excelData[1]) = 2 /\ excelData[2] = <<>>
    /\ Len(ColumnDefs) = 2 /\ Len(gridRows) = 2
    /\ gridRows[2].col = <<EmptyStr, EmptyStr>>

\* C12 as stated: when maxCols is 0 (the sheet is empty, or has only empty rows such
\* as [[]] or [[],[]]) the projection has zero column definitions and zero data rows.
C12_EmptyWidthEmptyGrid ==
    (phase = "grid" /\ edits = 0 /\ (Len(excelData) = 0 \/ Width(excelData) = 0)) =>
        /\ ColumnDefs = <<>>
        /\ RowData = <<>> /\ gridRows = <<>>

(***************************************************************************)
(* Properties of the presentation, checked under SpecView.                 *)
(***************************************************************************)
\* C16: the array handed to save and download has, after its header row, one row for
\* every row object of the grid, the rows a filter hides included, in the order in
\* which the rows were loaded (row n of the load has id n - 1), whatever the sort is.
C16_SortFilterPresentationOnly ==
    (phase = "grid" /\ download.done /\ GridMounted(excelData)) =>
        /\ Len(download.data) = Len(RowData) + 1
        /\ Len(gridRows) = Len(RowData)
        /\ \A n \in 1..Len(RowData) :
             /\ gridRows[n].id = n - 1
             /\ download.data[n + 1] = DataRow(gridRows[n], ColumnDefs)

C16_Witness ==
    /\ phase = "grid" /\ download.done
    /\ excelData = UnsortedSheet
    /\ sortModel = [colId |-> 0, sort |-> "desc"]
    /\ filterModel = [colId |-> 0, filter |-> <<"a">>]
    /\ DisplayedRows(gridRows, sortModel, filterModel) # gridRows
    /\ download.data = UnsortedSheet

(***************************************************************************)
(* Properties of the edit history, checked under SpecUndo.                 *)
(***************************************************************************)
\* C19: with a history of 20 cell edits, of n sequential edits at most min(n, 20) can
\* be reverted: the undo stack never holds more than 20 edits, the edits reverted and
\* the edits still revertible are together at most min(n, 20), and once 21 edits
\* stand in the history a complete undo sequence does not revert the first one: the
\* cell it changed does not get back the value it was loaded with.
C19_BoundedUndo ==
    /\ Len(undoStack) <= 20
    /\ Len(undoStack) + Len(redoStack) <= (IF edits <= 20 THEN edits ELSE 20)
    /\ (edits >= 21 /\ undoStack = <<>>) =>
          /\ gridRows # RowData
          /\ gridRows[1].col[2] # RowData[1].col[2]

C19_Witness ==
    /\ edits = 21 /\ undoStack = <<>> /\ Len(redoStack) = 20
    /\ gridRows[1].col = <<Str(<<"A">>), Str(<<"1">>)>>

(***************************************************************************)
(* Properties of the routes, checked under SpecRoute.                      *)
(***************************************************************************)
\* C20: the admin dashboard is on screen only while the session is authenticated, not
\* loading, and the user's role is ADMIN; once the session is read, an unauthenticated
\* visitor who asked for a protected route is at /login, and an authenticated USER who
\* asked for the admin route is at /upload.
C20_RouteProtection ==
    /\ screen = "AdminDashboard" =>
          (isAuthenticated /\ ~isLoading /\ user = ADMIN)
    /\ (~isLoading /\ ~isAuthenticated /\ requested \in ProtectedPaths) =>
          (location = "/login" /\ screen = "LoginPage")
    /\ (~isLoading /\ isAuthenticated /\ user = USER /\ requested = "/admin/dashboard") =>
          (location = "/upload" /\ screen = "FileUploadPage")

C20_Witness ==
    /\ ~isLoading /\ isAuthenticated /\ user = USER
    /\ requested = "/admin/dashboard"
    /\ location = "/upload" /\ screen = "FileUploadPage"

(***************************************************************************)
(* Properties of the editor, checked under SpecEditor.                     *)
(***************************************************************************)
IsSave(r)   == r.kind \in {"saveFile", "dbSave", "modalSave"}
IsDbSave(r) == r.kind \in {"dbSave", "modalSave"}

\* C5 as stated: in an editor that was given no portfolioId, once a create has
\* succeeded and returned a portfolioId, every database save dispatched afterwards is
\* an update (PUT) against that id, not another create.
C5_CreateThenUpdate ==
    [][ \A r \in pending' \ pending :
          (IsDbSave(r) /\ portfolioId = 0 /\ returnedId # 0) =>
              (r.method = "PUT" /\ r.target = returnedId) ]_vars

\* C6 as stated: at most one save request, of either kind, is in flight.
C6_OneSaveInFlight ==
    Cardinality({ r \in pending : IsSave(r) }) <= 1

\* C7 as stated: a database save that ends without success, by a throw or by a
\* response with success = false, shows an error notification and leaves the sheet
\* and the grid's rows as they were.
C7_DbFailureSurfaced ==
    [][ (IsDbSave(lastResponse') /\ lastResponse'.outcome \in {"reject", "throw"}) =>
            /\ notice' = "error"
            /\ excelData' = excelData /\ gridRows' = gridRows ]_vars

\* C14 as stated: a load of a spreadsheet that fails, at the request, at the decoding of
\* the bytes or at the conversion of the first sheet, shows an error and leaves
\* workbook, currentSheet and excelData as they were.
C14_LoadFailureKeepsState ==
    [][ (lastResponse'.kind = "loadExcel" /\ lastResponse'.outcome # "ok") =>
            /\ notice' = "error"
            /\ workbook' = workbook /\ currentSheet' = currentSheet
            /\ excelData' = excelData ]_vars

(***************************************************************************)
(* Properties of the busy flags, checked under SpecBusy.                   *)
(***************************************************************************)
\* the flag that guards the control of a request: loading for the loads and the file
\* save, saving for the database saves, uploading for the upload
Busy(kind) ==
    CASE kind \in {"loadExcel", "loadQuarterly", "saveFile"} -> loading
      [] kind \in {"dbSave", "modalSave"} -> saving
      [] kind = "upload" -> uploading

\* C13: the step that dispatches a request of one of the five asynchronous actions
\* sets that action's busy flag, the step that handles its completion, on success and
\* on every failure, clears it, and a rejected modal form leaves saving clear; so with
\* nothing in flight no flag is set and no control stays disabled.
C13_BusyFlagDiscipline ==
    [][ /\ \A r \in pending' \ pending : Busy(r.kind)' = TRUE
        /\ \A r \in pending \ pending' : Busy(r.kind)' = FALSE
        /\ pending' = {} => (~loading' /\ ~saving' /\ ~uploading') ]_vars

C13_Witness ==
    /\ lastResponse = [kind |-> "modalSave", outcome |-> "throw"]
    /\ isModalVisible /\ ~saving /\ ~loading
    /\ pending = {} /\ notice = "error"

(***************************************************************************)
(* Properties of the upload component, checked under SpecUpload.           *)
(***************************************************************************)
\* a file of an accepted type that is not larger than 10 MiB
Acceptable(f) ==
    /\ f.mime[1] = "image" \/ f.mime = <<"application", "pdf">>
    /\ f.size <= 10 * MiB

IsDigit(ch) == \E i \in 1..10 : Digits[i] = ch

\* the values of the relationship select
Relationships ==
    { <<"s", "p", "o", "u", "s", "e">>, <<"c", "h", "i", "l", "d">>,
      <<"p", "a", "r", "e", "n", "t">>, <<"s", "i", "b", "l", "i", "n", "g">>,
      <<"o", "t", "h", "e", "r">> }

\* /^[1-9]\d{5}(18|19|20)\d{2}((0[1-9])|(1[0-2]))(([0-2][1-9])|10|20|30|31)\d{3}[0-9Xx]$/
IdNumberPattern(s) ==
    /\ Len(s) = 18
    /\ IsDigit(s[1]) /\ s[1] # "0"
    /\ \A i \in 2..6 : IsDigit(s[i])
    /\ <<s[7], s[8]>> \in { <<"1", "8">>, <<"1", "9">>, <<"2", "0">> }
    /\ IsDigit(s[9]) /\ IsDigit(s[10])
    /\ \/ s[11] = "0" /\ IsDigit(s[12]) /\ s[12] # "0"
       \/ s[11] = "1" /\ s[12] \in {"0", "1", "2"}
    /\ \/ s[13] \in {"0", "1", "2"} /\ IsDigit(s[14]) /\ s[14] # "0"
       \/ <<s[13], s[14]>> \in { <<"1", "0">>, <<"2", "0">>, <<"3", "0">>, <<"3", "1">> }
    /\ \A i \in 15..17 : IsDigit(s[i])
    /\ IsDigit(s[18]) \/ s[18] \in {"X", "x"}

\* /^1[3-9]\d{9}$/
PhonePattern(s) ==
    /\ Len(s) = 11
    /\ s[1] = "1"
    /\ IsDigit(s[2]) /\ s[2] \notin {"0", "1", "2"}
    /\ \A i \in 3..11 : IsDigit(s[i])

\* the rules of the form items name, relationship, idNumber and phone
ValidInfo(info) ==
    /\ Len(info.name) >= 2
    /\ info.relationship \in Relationships
    /\ IdNumberPattern(info.idNumber)
    /\ PhonePattern(info.phone)

\* C15 as stated: no upload request is sent unless its relation metadata is valid: a
\* name of at least two characters, a relationship of the enumerated set, an
\* identifier of the 18-character pattern and a phone number of the 11-digit pattern.
C15_MetadataValidatedBeforeDispatch ==
    \A r \in pending : r.kind = "upload" => ValidInfo(r.info)

\* C17: for a transport failure uploadFileAndGetExcel returns success = true with
\* excelUrl '/example.xlsx' and fileName 'example.xlsx'; the step that handles it
\* shows the success notification, never the error, and hands that reference to
\* onUploadSuccess, which moves the page to the editor step.
C17_TransportFallback ==
    [][ (lastResponse'.kind = "upload" /\ lastResponse'.outcome = "fail") =>
            /\ UploadFileAndGetExcel("fail").success
            /\ UploadFileAndGetExcel("fail").excelUrl = "/example.xlsx"
            /\ UploadFileAndGetExcel("fail").fileName = "example.xlsx"
            /\ notice' = "success"
            /\ pageExcelUrl' = "/example.xlsx" /\ pageFileName' = "example.xlsx"
            /\ currentStep' = 1 ]_vars

C17_Witness ==
    /\ lastResponse = [kind |-> "upload", outcome |-> "fail"]
    /\ notice = "success"
    /\ pageExcelUrl = "/example.xlsx" /\ pageFileName = "example.xlsx"
    /\ currentStep = 1 /\ ~uploading /\ fileList = <<>>

\* C18: the component holds at most one file, after a selection exactly the file just
\* selected; at most one upload request is in flight; and the request a submit
\* dispatches carries the one file of the list.
C18_SingleFileUpload ==
    [][ /\ Len(fileList') <= 1
        /\ selected' # NoFile => fileList' = <<selected'>>
        /\ Cardinality({ r \in pending' : r.kind = "upload" }) <= 1
        /\ \A r \in pending' \ pending :
             r.kind = "upload" => (fileList = <<r.file>> /\ sent' = r.file) ]_vars

C18_Witness ==
    /\ nreq = 2 /\ uploading
    /\ Len(fileList) = 1 /\ sent = fileList[1]
    /\ \E r \in pending : r.id = 2 /\ r.kind = "upload" /\ r.file = fileList[1]
    /\ Cardinality(pending) = 1

\* C4 as stated: a file that is no image and no PDF, or that is larger than 10 MiB,
\* is never submitted: no upload request in flight carries such a file.
C4_RejectedFileNeverSubmitted ==
    \A r \in pending : r.kind = "upload" => Acceptable(r.file)

(***************************************************************************)
(* Properties of the report page, checked under SpecReport.                *)
(***************************************************************************)
\* C21: a report whose status is anything other than draft is offered neither the
\* edit nor the submit action, so once its submit has succeeded it can no longer be
\* opened for modification.
C21_SubmittedReportsImmutable ==
    \A i \in DOMAIN reports :
        backendReports[i] # "draft" =>
            RowActions(reports[i], user) \cap {"edit", "submit"} = {}

(***************************************************************************)
(* Properties of overlapping loads, checked under SpecLoad.                *)
(***************************************************************************)
\* C22: while a load is pending the loading flag stays set, and the response of a load
\* that a later load has superseded, arriving after the later load has completed, does
\* not replace the displayed sheet: the sheet shown is that of the latest load.
C22_LatestLoadWins ==
    [][ /\ pending' # {} => loading'
        /\ \A r \in pending \ pending' :
              (r.id < nreq /\ pending' = {}) => excelData' = excelData ]_vars

(***************************************************************************)
(* Properties of the file save, checked under SpecEditor.                  *)
(***************************************************************************)
\* C23: handleSave shows the success notification and invokes onSave only when the
\* save request completed with success = true; a response with success = false and a
\* failed request show an error notification and invoke no onSave.
C23_FileSaveSuccessOnlyOnSuccess ==
    [][ lastResponse'.kind = "saveFile" =>
            IF lastResponse'.outcome = "ok"
            THEN notice' = "success" /\ onSaveCalled'
            ELSE notice' = "error" /\ ~onSaveCalled' ]_vars

(***************************************************************************)
(* Cell values through the adapter, checked under SpecGrid.                *)
(***************************************************************************)
\* C24: every cell present in a data row of the sheet is stored unchanged under its
\* column of the row object and comes out unchanged in the array of getGridData, the
\* number 0 included; only absent cells become "".
C24_CellValuesSurvive ==
    (phase = "grid" /\ edits = 0 /\ Len(excelData) > 0) =>
        LET start == StartRow(HasHeaders(excelData[1]))
        IN  \A n \in 1..Len(gridRows) :
              \A k \in 1..Len(excelData[start + n]) :
                LET cell == excelData[start + n][k]
                IN  cell # Null =>
                      /\ gridRows[n].col[k] = cell
                      /\ download.done => download.data[n + 1][k] = cell

(***************************************************************************)
(* The quarterly-report load, checked under SpecEditor.                    *)
(***************************************************************************)
\* C25: when the quarterly-report request succeeds and returns data,
\* loadQuarterlyReport stores the data and shows the success notification, no error
\* notification; the error notification appears only if the request failed.
C25_QuarterlyLoadOutcome ==
    [][ lastResponse'.kind = "loadQuarterly" =>
            /\ lastResponse'.outcome = "ok" => notice' = "success"
            /\ notice' = "error" => lastResponse'.outcome = "throw" ]_vars

(***************************************************************************)
(* Properties of the wizard, checked under SpecWizard.                     *)
(***************************************************************************)
\* C26: after an edit at step 1 and a save that moved the page to step 2, "continue
\* editing" shows the edited contents again and starts no load that would replace them.
C26_EditsSurviveContinueEditing ==
    [][ (currentStep = 2 /\ currentStep' = 1 /\ edits > 0) =>
            /\ gridRows' = gridRows
            /\ \A r \in pending' : r.kind \notin {"loadExcel", "loadQuarterly"} ]_vars

\* C27: currentStep is 0, 1 or 2; at step 1 and 2 the page's excelUrl is not empty;
\* step 0 is left only for step 1 and only with the url of a successful upload; step 2
\* is entered only from step 1 by onSave; a return to step 0 clears excelUrl and
\* fileName.
C27_WizardInvariant ==
    [][ /\ currentStep' \in {0, 1, 2}
        /\ currentStep' \in {1, 2} => pageExcelUrl' # ""
        /\ (currentStep = 0 /\ currentStep' # 0) =>
               /\ currentStep' = 1
               /\ \E o \in UploadOutcomes :
                    /\ UploadFileAndGetExcel(o).success
                    /\ pageExcelUrl' = UploadFileAndGetExcel(o).excelUrl
        /\ (currentStep # 2 /\ currentStep' = 2) => (currentStep = 1 /\ onSaveCalled')
        /\ (currentStep # 0 /\ currentStep' = 0) =>
               (pageExcelUrl' = "" /\ pageFileName' = "") ]_vars

C29_NoSaveOfUnloadedSheet ==
    [][ \A r \in pending' \ pending :
            IsSave(r) => (GridMounted(excelData) /\ r.data # <<>>) ]_vars

====
